---- MODULE Spec2Model ----
(***************************************************************************)
(* Model of radon_sim_webapp.py: the stochastic decay engine               *)
(* (ProgenyDecay), the unit converter (RAD7_CONC_TO_N) and the simulation  *)
(* loop with its per-cycle aggregation.                                    *)
(*                                                                         *)
(* Python floats are modelled as decimal floating-point numbers <<m, e>>   *)
(* (value m * 10^e) with a seven-digit mantissa, truncated after every     *)
(* operation.  A random draw is a nondeterministic choice over the values  *)
(* the sampler can return.                                                 *)
(***************************************************************************)
EXTENDS Integers, Sequences, FiniteSets

(***************************************************************************)
(* Decimal floating point.                                                 *)
(***************************************************************************)
Abs(x) == IF x < 0 THEN -x ELSE x

Sgn(x) == IF x < 0 THEN -1 ELSE IF x = 0 THEN 0 ELSE 1

RECURSIVE Pow10(_)
Pow10(k) == IF k <= 0 THEN 1 ELSE 10 * Pow10(k - 1)

\* m * 10^e with the mantissa brought to seven digits (truncating toward zero).
RECURSIVE DNorm(_, _)
DNorm(m, e) ==
    IF m = 0 THEN <<0, 0>>
    ELSE IF Abs(m) >= 10000000 THEN DNorm(Sgn(m) * (Abs(m) \div 10), e + 1)
    ELSE IF Abs(m) < 1000000 THEN DNorm(m * 10, e - 1)
    ELSE <<m, e>>

FromInt(n) == DNorm(n, 0)

RECURSIVE LongDiv(_, _, _, _)
LongDiv(q, r, b, k) ==
    IF k = 0 THEN q
    ELSE LongDiv(q * 10 + ((r * 10) \div b), (r * 10) % b, b, k - 1)

\* a / b, b # 0
DDiv(a, b) ==
    LET ma == Abs(a[1])
        mb == Abs(b[1])
        q  == LongDiv(ma \div mb, ma % mb, mb, 7)
    IN  DNorm(Sgn(a[1]) * Sgn(b[1]) * q, a[2] - b[2] - 7)

\* a * b
DMul(a, b) ==
    LET ma == Abs(a[1])
        mb == Abs(b[1])
        ah == ma \div 1000
        al == ma % 1000
        bh == mb \div 1000
        bl == mb % 1000
        m  == ah * bh + ((ah * bl + al * bh) \div 1000)
    IN  DNorm(Sgn(a[1]) * Sgn(b[1]) * m, a[2] + b[2] + 6)

\* a + b
DAdd(a, b) ==
    IF a[1] = 0 THEN b
    ELSE IF b[1] = 0 THEN a
    ELSE LET hi == IF a[2] >= b[2] THEN a ELSE b
             lo == IF a[2] >= b[2] THEN b ELSE a
             sh == hi[2] - lo[2]
             lm == IF sh > 7 THEN 0 ELSE Sgn(lo[1]) * (Abs(lo[1]) \div Pow10(sh))
         IN  DNorm(hi[1] + lm, hi[2])

\* a < b
DLess(a, b) ==
    LET PosLess(x, y) ==
            IF y[1] = 0 THEN FALSE
            ELSE IF x[1] = 0 THEN TRUE
            ELSE x[2] < y[2] \/ (x[2] = y[2] /\ x[1] < y[1])
    IN  IF a[1] < 0 /\ b[1] >= 0 THEN TRUE
        ELSE IF a[1] >= 0 /\ b[1] < 0 THEN FALSE
        ELSE IF a[1] >= 0 THEN PosLess(a, b)
        ELSE PosLess(<<-b[1], b[2]>>, <<-a[1], a[2]>>)

DLeq(a, b) == ~DLess(b, a)

\* Python's int(x): truncation toward zero
DTrunc(a) ==
    IF a[2] >= 0 THEN a[1] * Pow10(a[2])
    ELSE IF -a[2] > 9 THEN 0
    ELSE Sgn(a[1]) * (Abs(a[1]) \div Pow10(-a[2]))

RECURSIVE ISqrtB(_, _, _)
ISqrtB(x, lo, hi) ==
    IF lo = hi THEN lo
    ELSE LET mid == (lo + hi + 1) \div 2
         IN  IF mid * mid <= x THEN ISqrtB(x, mid, hi) ELSE ISqrtB(x, lo, mid - 1)

\* np.sqrt(n) of a small non-negative integer, to three decimals
SqrtInt(n) == DNorm(ISqrtB(n * 1000000, 0, 46340), -3)

Zero == <<0, 0>>

One == FromInt(1)

(***************************************************************************)
(* Constants (lines 9-20).                                                 *)
(***************************************************************************)
Isotopes == <<"Rn222", "Po218", "Pb214", "Bi214", "Po214", "Pb210">>

halflives ==
    [Rn222 |-> DNorm(33035, 1),
     Po218 |-> DNorm(18588, -2),
     Pb214 |-> FromInt(1608),
     Bi214 |-> FromInt(1194),
     Po214 |-> DNorm(1643, -7),
     Pb210 |-> DNorm(70325, 4)]

\* np.log(2)
LN2 == DNorm(6931472, -7)

dconst == [k \in DOMAIN halflives |-> DDiv(LN2, halflives[k])]

VOLUME == DNorm(1, -3)

dt == 60

(***************************************************************************)
(* ProgenyDecay (lines 23-35).                                             *)
(***************************************************************************)
\* lines 24-25: tau = thalf / np.log(2); p = 1 / tau * dt
DecayProb(thalf, step) == DMul(DDiv(One, DDiv(thalf, LN2)), FromInt(step))

\* the clamp without its upper end
ClampFromBelow(p) == IF DLess(p, Zero) THEN Zero ELSE p

\* line 33: min(1.0, max(0.0, p))
Clamp(p) ==
    LET lower == IF DLess(p, Zero) THEN Zero ELSE p
    IN  IF DLess(One, lower) THEN One ELSE lower

\* The probabilities that reach the sampler in one call: the comparison of
\* line 29 gets p as computed (once per atom, so never for Ni = 0), the
\* binomial draw of line 34 gets the clamped p.
Sampled(thalf, Ni, step, method) ==
    IF method = "atom"
    THEN IF Ni > 0 THEN {DecayProb(thalf, step)} ELSE {}
    ELSE {Clamp(DecayProb(thalf, step))}

\* line 29: the outcomes of random.random() < p, random.random() in [0, 1)
Bernoulli(p) ==
    IF DLeq(p, Zero) THEN {FALSE}
    ELSE IF DLeq(One, p) THEN {TRUE}
    ELSE {TRUE, FALSE}

\* lines 28-30: the values Ni can hold after the loop has run over k atoms
RECURSIVE AtomLoop(_, _, _)
AtomLoop(Ni, k, p) ==
    IF k = 0 THEN {Ni}
    ELSE UNION {AtomLoop(IF hit THEN Ni - 1 ELSE Ni, k - 1, p) : hit \in Bernoulli(p)}

\* a sampler that can draw one decay more than there are atoms
BinomialDrawsOver(n, p) ==
    IF n < 0 \/ DLess(p, Zero) \/ DLess(One, p) THEN {} ELSE 0 .. n + 1

\* line 34: the values np.random.binomial(n, p) can return; it raises
\* ValueError (no value) for n < 0 or p outside [0, 1]
BinomialDraws(n, p) ==
    IF n < 0 \/ DLess(p, Zero) \/ DLess(One, p) THEN {}
    ELSE IF p = Zero THEN {0}
    ELSE IF p = One THEN {n}
    ELSE 0 .. n

\* a call that hands back the population it was given as the survivors
ProgenyDecayKeepsAll(thalf, Ni, step, method) ==
    {<<Ni, decays>> : decays \in BinomialDraws(Ni, Clamp(DecayProb(thalf, step)))}

\* The pairs (survivors, decays) a call can return.
ProgenyDecay(thalf, Ni, step, method) ==
    IF method = "atom"
    THEN {<<n, Ni - n>> : n \in AtomLoop(Ni, IF Ni > 0 THEN Ni ELSE 0, DecayProb(thalf, step))}
    ELSE {<<Ni - decays, decays>> : decays \in BinomialDraws(Ni, Clamp(DecayProb(thalf, step)))}

(***************************************************************************)
(* RAD7_CONC_TO_N (lines 37-38).                                           *)
(***************************************************************************)
\* a variant that rounds to the nearest integer where the program truncates
RAD7_CONC_TO_N_Rounded(ConcBq, decay_const) ==
    DTrunc(DAdd(DDiv(DMul(VOLUME, ConcBq), decay_const), DNorm(5, -1)))

RAD7_CONC_TO_N(ConcBq, decay_const) == DTrunc(DDiv(DMul(VOLUME, ConcBq), decay_const))

(***************************************************************************)
(* Program state.  The configuration (Rn222_CONC, source, cycle_time,      *)
(* simtime) is what the sidebar hands to the simulation; the rest are the  *)
(* module-level names of lines 85-143.  iter is the position of the range  *)
(* iterator of line 97, time its loop variable.  The names bound inside    *)
(* the loop (time, *_red, *_gen) hold 0 before the first iteration.        *)
(* decay_call and decay_ret hold one direct call of ProgenyDecay and what  *)
(* it returned, conv_call and conv_ret one direct call of RAD7_CONC_TO_N.  *)
(***************************************************************************)
VARIABLES Rn222_CONC, source, cycle_time, simtime,
          pc, iter, time,
          Rn222, Po218, Pb214, Bi214, Po214, Pb210,
          Rn222_red, Po218_gen, Po218_red, Pb214_gen, Pb214_red, Bi214_gen,
          Bi214_red, Po214_gen, Po214_red, Pb210_gen, Pb210_red,
          po218_cycle, po214_cycle, po_cycle_table, po_conc_log, dNsim,
          decay_call, decay_ret, conv_call, conv_ret

config == <<Rn222_CONC, source, cycle_time, simtime>>

chain == <<Rn222, Po218, Pb214, Bi214, Po214, Pb210>>

locals == <<Rn222_red, Po218_gen, Po218_red, Pb214_gen, Pb214_red, Bi214_gen,
            Bi214_red, Po214_gen, Po214_red, Pb210_gen, Pb210_red>>

cycle == <<po218_cycle, po214_cycle, po_cycle_table>>

logs == <<po_conc_log, dNsim>>

direct == <<decay_call, decay_ret, conv_call, conv_ret>>

vars == <<config, pc, iter, time, chain, locals, cycle, logs, direct>>

(***************************************************************************)
(* Bounds of the model.                                                    *)
(***************************************************************************)
\* concentrations are whole thousandths of a Bq/m3, up to MaxConcMilli
MaxConcMilli == 5

\* a run is followed while the six populations together hold at most MaxPop atoms
MaxPop == 2

\* populations handed to a direct call of ProgenyDecay, and accumulator
\* contents tried at a cycle boundary
MaxN == 3

(***************************************************************************)
(* Detector constants (lines 93-95) and the Auto threshold (line 138).     *)
(***************************************************************************)
normal_sens == DNorm(14, -3)

sniff_sens == DNorm(68, -4)

fudge_factor == DNorm(87, -1)

AutoThreshold == 10800

(***************************************************************************)
(* The cycle record of lines 120-140, from the loop variable, the two      *)
(* accumulators and the cycle length.                                      *)
(***************************************************************************)
\* the switch taken one cycle early: Normal already at the threshold itself
AutoPickStrict(t, sniff_value, normal_value) ==
    IF t < AutoThreshold THEN sniff_value ELSE normal_value

\* the Auto columns taking the Normal value at the first reading past the
\* threshold only
AutoPickAtSwitchOnly(t, sniff_value, normal_value) ==
    IF t = AutoThreshold + dt THEN normal_value ELSE sniff_value

\* lines 138-139: the value the Auto columns take
AutoPick(t, sniff_value, normal_value) ==
    IF t <= AutoThreshold THEN sniff_value ELSE normal_value

\* the record with uncertainties of twice the square root of the counts, without
\* the two added ones of lines 125 and 128
CycleRecordBareRoot(t, c218, c214, ct) ==
    LET cycle_min        == DDiv(FromInt(ct), FromInt(60))
        cpm_po218        == DDiv(FromInt(c218), cycle_min)
        cpm_po214        == DDiv(FromInt(c214), cycle_min)
        radon_sniff      == DDiv(cpm_po218, DMul(sniff_sens, fudge_factor))
        radon_sniff_err  == DDiv(DMul(FromInt(2), SqrtInt(c218)),
                                 DMul(DMul(sniff_sens, fudge_factor), cycle_min))
        radon_normal     == DDiv(DAdd(cpm_po218, cpm_po214), DMul(normal_sens, fudge_factor))
        radon_normal_err == DDiv(DMul(FromInt(2), SqrtInt(c218 + c214)),
                                 DMul(DMul(normal_sens, fudge_factor), cycle_min))
    IN  [mins       |-> t \div 60,
         cpm_po218  |-> cpm_po218,
         cpm_po214  |-> cpm_po214,
         normal     |-> radon_normal,
         sniff      |-> radon_sniff,
         normal_err |-> radon_normal_err,
         sniff_err  |-> radon_sniff_err,
         auto       |-> AutoPick(t, radon_sniff, radon_normal),
         auto_err   |-> AutoPick(t, radon_sniff_err, radon_normal_err)]

CycleRecord(t, c218, c214, ct) ==
    LET cycle_min        == DDiv(FromInt(ct), FromInt(60))
        cpm_po218        == DDiv(FromInt(c218), cycle_min)
        cpm_po214        == DDiv(FromInt(c214), cycle_min)
        radon_sniff      == DDiv(cpm_po218, DMul(sniff_sens, fudge_factor))
        radon_sniff_err  == DDiv(DMul(FromInt(2), DAdd(One, SqrtInt(c218 + 1))),
                                 DMul(DMul(sniff_sens, fudge_factor), cycle_min))
        radon_normal     == DDiv(DAdd(cpm_po218, cpm_po214), DMul(normal_sens, fudge_factor))
        radon_normal_err == DDiv(DMul(FromInt(2), DAdd(One, SqrtInt(c218 + c214 + 1))),
                                 DMul(DMul(normal_sens, fudge_factor), cycle_min))
    IN  [mins       |-> t \div 60,
         cpm_po218  |-> cpm_po218,
         cpm_po214  |-> cpm_po214,
         normal     |-> radon_normal,
         sniff      |-> radon_sniff,
         normal_err |-> radon_normal_err,
         sniff_err  |-> radon_sniff_err,
         auto       |-> AutoPick(t, radon_sniff, radon_normal),
         auto_err   |-> AutoPick(t, radon_sniff_err, radon_normal_err)]

\* the boundary test without its time > 0 part
AtBoundaryAtZero(t, ct) == t % Abs(ct) = 0

\* line 119: time % cycle_time == 0 and time > 0 (cycle_time # 0)
AtBoundary(t, ct) == t % Abs(ct) = 0 /\ t > 0

(***************************************************************************)
(* Initial states: lines 85-91 under a configuration.                      *)
(***************************************************************************)
Setup(conc, src, ct, st) ==
    /\ Rn222_CONC = conc
    /\ source = src
    /\ cycle_time = ct
    /\ simtime = st
    /\ iter = 0
    /\ time = 0
    /\ Rn222 = RAD7_CONC_TO_N(conc, dconst.Rn222)
    /\ Po218 = 0 /\ Pb214 = 0 /\ Bi214 = 0 /\ Po214 = 0 /\ Pb210 = 0
    /\ Rn222_red = 0 /\ Po218_gen = 0 /\ Po218_red = 0 /\ Pb214_gen = 0
    /\ Pb214_red = 0 /\ Bi214_gen = 0 /\ Bi214_red = 0 /\ Po214_gen = 0
    /\ Po214_red = 0 /\ Pb210_gen = 0 /\ Pb210_red = 0
    /\ po218_cycle = 0
    /\ po214_cycle = 0
    /\ po_cycle_table = <<>>
    /\ po_conc_log = <<>>
    /\ dNsim = <<>>

\* a run of the simulation under a configuration
Run(conc, src, ct, st) ==
    /\ Setup(conc, src, ct, st)
    /\ pc = "loop"
    /\ decay_call = <<>>
    /\ decay_ret = <<>>
    /\ conv_call = <<>>
    /\ conv_ret = <<>>

\* Runs of a few steps, under every concentration and either source flag.
ShortCycleTimes == {120, 300}

ShortSimTimes == {250, 360}

InitShort ==
    \E c \in 0 .. MaxConcMilli, src \in BOOLEAN, ct \in ShortCycleTimes, st \in ShortSimTimes :
        Run(DNorm(c, -3), src, ct, st)

\* The run of three whole five-minute cycles, with at most one radon atom
\* that is not replaced.
InitWhole == \E c \in {0, 3} : Run(DNorm(c, -3), FALSE, 300, 900)

Init == InitShort \/ InitWhole

(***************************************************************************)
(* One iteration of the loop of line 97.                                   *)
(***************************************************************************)
\* a head population that is depleted whatever the source flag says
HeadUpdateDepleting(src, N, red) == red

\* line 112
HeadUpdate(src, N, red) == IF src THEN N ELSE red

\* a population update that drops the inflow from the parent
RefillNoInflow(gen, red) == red

\* lines 113-117
Refill(gen, red) == gen + red

\* lines 105-106
Accumulate(acc, gen) == acc + gen

\* lines 98-117 at loop variable t, with r0 .. r5 what the six calls returned
Lines98to117(t, r0, r1, r2, r3, r4, r5) ==
    /\ time' = t
    /\ Rn222_red' = r0[1] /\ Po218_gen' = r0[2]
    /\ Po218_red' = r1[1] /\ Pb214_gen' = r1[2]
    /\ Pb214_red' = r2[1] /\ Bi214_gen' = r2[2]
    /\ Bi214_red' = r3[1] /\ Po214_gen' = r3[2]
    /\ Po214_red' = r4[1] /\ Pb210_gen' = r4[2]
    /\ Pb210_red' = r5[1]
    /\ dNsim' = Append(dNsim,
                       <<t, DDiv(FromInt(r0[2]), FromInt(dt)), DDiv(FromInt(r1[2]), FromInt(dt)),
                         DDiv(FromInt(r2[2]), FromInt(dt)), DDiv(FromInt(r3[2]), FromInt(dt)),
                         DDiv(FromInt(r4[2]), FromInt(dt)), 0>>)
    /\ po_conc_log' = Append(po_conc_log, <<t, Po218, Po214>>)
    /\ Rn222' = HeadUpdate(source, Rn222, r0[1])
    /\ Po218' = Refill(r0[2], r1[1])
    /\ Pb214' = Refill(r1[2], r2[1])
    /\ Bi214' = Refill(r2[2], r3[1])
    /\ Po214' = Refill(r3[2], r4[1])
    /\ Pb210' = Refill(r4[2], r5[1])

\* the aggregation without the reset of lines 142-143
Lines119to143NoReset(t, c218, c214) ==
    /\ po_cycle_table' = IF AtBoundary(t, cycle_time)
                         THEN Append(po_cycle_table, CycleRecord(t, c218, c214, cycle_time))
                         ELSE po_cycle_table
    /\ po218_cycle' = c218
    /\ po214_cycle' = c214

\* the aggregation keeping the latest record only
Lines119to143Overwrite(t, c218, c214) ==
    IF AtBoundary(t, cycle_time)
    THEN /\ po_cycle_table' = <<CycleRecord(t, c218, c214, cycle_time)>>
         /\ po218_cycle' = 0
         /\ po214_cycle' = 0
    ELSE /\ po_cycle_table' = po_cycle_table
         /\ po218_cycle' = c218
         /\ po214_cycle' = c214

\* lines 119-143, with c218 and c214 the accumulators after lines 105-106
Lines119to143(t, c218, c214) ==
    IF AtBoundary(t, cycle_time)
    THEN /\ po_cycle_table' = Append(po_cycle_table, CycleRecord(t, c218, c214, cycle_time))
         /\ po218_cycle' = 0
         /\ po214_cycle' = 0
    ELSE /\ po_cycle_table' = po_cycle_table
         /\ po218_cycle' = c218
         /\ po214_cycle' = c214

\* the range of line 97 with its end value included
HasNextInclusive == iter * dt <= simtime

\* the range of line 97 has a next value
HasNext == iter * dt < simtime

\* an iteration that runs to its end
Step ==
    /\ pc = "loop"
    /\ HasNext
    /\ cycle_time # 0
    /\ \E r0 \in ProgenyDecay(halflives.Rn222, Rn222, dt, "binomial"),
          r1 \in ProgenyDecay(halflives.Po218, Po218, dt, "binomial"),
          r2 \in ProgenyDecay(halflives.Pb214, Pb214, dt, "binomial"),
          r3 \in ProgenyDecay(halflives.Bi214, Bi214, dt, "binomial"),
          r4 \in ProgenyDecay(halflives.Po214, Po214, dt, "binomial"),
          r5 \in ProgenyDecay(halflives.Pb210, Pb210, dt, "binomial") :
            /\ Lines98to117(iter * dt, r0, r1, r2, r3, r4, r5)
            /\ Lines119to143(iter * dt, Accumulate(po218_cycle, r0[2]),
                             Accumulate(po214_cycle, r3[2]))
    /\ Po218' + Pb214' + Bi214' + Po214' + Pb210' <= MaxPop
    /\ iter' = iter + 1
    /\ UNCHANGED <<config, pc, direct>>

\* the range is exhausted: the loop ends
Done ==
    /\ pc = "loop"
    /\ ~HasNext
    /\ pc' = "done"
    /\ UNCHANGED <<config, iter, time, chain, locals, cycle, logs, direct>>

Next == Step \/ Done

Spec == Init /\ [][Next]_vars

\* The loop of line 97 is a sequential for loop: an iteration that is due is
\* run, and the loop is left when the range is used up.  LoopRuns is weak
\* fairness of Step with its enabling condition written out (under Init, an
\* iteration is possible in every loop state whose range has a next value).
LoopRuns == []<>(~(pc = "loop" /\ HasNext)) \/ []<><<Step>>_vars

SpecFair == Init /\ [][Next]_vars /\ LoopRuns /\ WF_vars(Done)

(***************************************************************************)
(* Runs that pass the three-hour threshold of Auto mode.  No radon is in   *)
(* the chamber, so that the 182 and more steps of such a run are followed  *)
(* in full.                                                                *)
(***************************************************************************)
LongCycleTimes == {60, 3600}

LongSimTimes == {10920, 14460}

InitLong ==
    \E src \in BOOLEAN, ct \in LongCycleTimes, st \in LongSimTimes : Run(Zero, src, ct, st)

SpecLong == InitLong /\ [][Next]_vars

(***************************************************************************)
(* An iteration that raises.  np.random.binomial raises ValueError at      *)
(* line 98 for a negative radon population; time % cycle_time raises       *)
(* ZeroDivisionError at line 119, after lines 98-117 have run, for a       *)
(* cycle length of 0.  The configurations are those of the short runs and  *)
(* the ones the sidebar would not hand over.                               *)
(***************************************************************************)
RaisesAt98 ==
    /\ pc = "loop"
    /\ HasNext
    /\ ProgenyDecay(halflives.Rn222, Rn222, dt, "binomial") = {}
    /\ time' = iter * dt
    /\ iter' = iter + 1
    /\ pc' = "failed"
    /\ UNCHANGED <<config, chain, locals, cycle, logs, direct>>

RaisesAt119 ==
    /\ pc = "loop"
    /\ HasNext
    /\ cycle_time = 0
    /\ \E r0 \in ProgenyDecay(halflives.Rn222, Rn222, dt, "binomial"),
          r1 \in ProgenyDecay(halflives.Po218, Po218, dt, "binomial"),
          r2 \in ProgenyDecay(halflives.Pb214, Pb214, dt, "binomial"),
          r3 \in ProgenyDecay(halflives.Bi214, Bi214, dt, "binomial"),
          r4 \in ProgenyDecay(halflives.Po214, Po214, dt, "binomial"),
          r5 \in ProgenyDecay(halflives.Pb210, Pb210, dt, "binomial") :
            /\ Lines98to117(iter * dt, r0, r1, r2, r3, r4, r5)
            /\ po218_cycle' = Accumulate(po218_cycle, r0[2])
            /\ po214_cycle' = Accumulate(po214_cycle, r3[2])
    /\ iter' = iter + 1
    /\ pc' = "failed"
    /\ UNCHANGED <<config, po_cycle_table, direct>>

AnyCycleTimes == {-300, 0, 300}

AnySimTimes == {-60, 0, 250}

InitAny ==
    \E c \in -MaxConcMilli .. MaxConcMilli, src \in BOOLEAN,
       ct \in AnyCycleTimes, st \in AnySimTimes :
        Run(DNorm(c, -3), src, ct, st)

NextAny == Step \/ Done \/ RaisesAt98 \/ RaisesAt119

SpecAny == InitAny /\ [][NextAny]_vars

(***************************************************************************)
(* One direct call of ProgenyDecay, with either sampling method.           *)
(***************************************************************************)
Methods == {"atom", "binomial"}

StepLengths == {0, 60, 3600}

InitDecay ==
    /\ Setup(Zero, FALSE, 300, 0)
    /\ pc = "call"
    /\ \E k \in DOMAIN halflives, n \in 0 .. MaxN, s \in StepLengths, m \in Methods :
          decay_call = <<[thalf |-> halflives[k], Ni |-> n, dt |-> s, method |-> m]>>
    /\ decay_ret = <<>>
    /\ conv_call = <<>>
    /\ conv_ret = <<>>

Call ==
    /\ pc = "call"
    /\ LET c == decay_call[1]
       IN  \E r \in ProgenyDecay(c.thalf, c.Ni, c.dt, c.method) :
              decay_ret' = <<[survivors |-> r[1], decays |-> r[2],
                              sampled |-> Sampled(c.thalf, c.Ni, c.dt, c.method)]>>
    /\ pc' = "returned"
    /\ UNCHANGED <<config, iter, time, chain, locals, cycle, logs, decay_call,
                   conv_call, conv_ret>>

NextDecay == Call

SpecDecay == InitDecay /\ [][NextDecay]_vars


(***************************************************************************)
(* One direct call of RAD7_CONC_TO_N beside the set-up of lines 85-86.     *)
(* The call takes a concentration in thousandths of a Bq/m3 or in whole    *)
(* Bq/m3 (148 and 200 are the values the sidebar names) and the decay      *)
(* constant of one of the six isotopes; the set-up takes a concentration   *)
(* in thousandths.  A pair is left out where more than MaxAtoms atoms      *)
(* would come back.                                                        *)
(***************************************************************************)
MaxConcBq == 20

MaxAtoms == 100

WholeConcs == (1 .. MaxConcBq) \cup {148, 200}

ConvConcs == {DNorm(c, -3) : c \in 0 .. MaxConcMilli} \cup {FromInt(c) : c \in WholeConcs}

ConvInputs ==
    {in \in [ConcBq : ConvConcs, decay_const : {dconst[k] : k \in DOMAIN dconst}] :
        DLess(DDiv(DMul(VOLUME, in.ConcBq), in.decay_const), FromInt(MaxAtoms))}

InitConv ==
    /\ \E c \in 0 .. MaxConcMilli : Setup(DNorm(c, -3), FALSE, 300, 0)
    /\ pc = "convert"
    /\ \E in \in ConvInputs : conv_call = <<in>>
    /\ conv_ret = <<>>
    /\ decay_call = <<>>
    /\ decay_ret = <<>>

Convert ==
    /\ pc = "convert"
    /\ conv_ret' = <<RAD7_CONC_TO_N(conv_call[1].ConcBq, conv_call[1].decay_const)>>
    /\ pc' = "returned"
    /\ UNCHANGED <<config, iter, time, chain, locals, cycle, logs, decay_call,
                   decay_ret, conv_call>>

NextConv == Convert

SpecConv == InitConv /\ [][NextConv]_vars

(***************************************************************************)
(* Properties.                                                             *)
(***************************************************************************)
Records == {po_cycle_table[k] : k \in DOMAIN po_cycle_table}

\* ceil(simtime / dt), the number of values of range(0, simtime, dt)
RangeLen == IF simtime <= 0 THEN 0 ELSE (simtime + dt - 1) \div dt

\* C1: a finished run of three whole five-minute cycles (dt = 60,
\* cycle_time = 300, simtime = 900) has produced exactly 3 cycle records,
\* with cycle end times 5, 10 and 15 minutes.
C1_ThreeWholeCycles ==
    (pc = "done" /\ cycle_time = 300 /\ simtime = 900) =>
        /\ Len(po_cycle_table) = 3
        /\ \A k \in DOMAIN po_cycle_table : po_cycle_table[k].mins = 5 * k

\* C2: in every step, each non-head population after the step is the decays
\* of its parent in that step (the parent's population before the step less
\* its survivors, which is the *_gen value the call returned) plus its own
\* survivors of that step.
C2_ChainCoupling ==
    [][iter' = iter + 1 =>
          /\ Po218_gen' = Rn222 - Rn222_red' /\ Po218' = Po218_gen' + Po218_red'
          /\ Pb214_gen' = Po218 - Po218_red' /\ Pb214' = Pb214_gen' + Pb214_red'
          /\ Bi214_gen' = Pb214 - Pb214_red' /\ Bi214' = Bi214_gen' + Bi214_red'
          /\ Po214_gen' = Bi214 - Bi214_red' /\ Po214' = Po214_gen' + Po214_red'
          /\ Pb210_gen' = Po214 - Po214_red' /\ Pb210' = Pb210_gen' + Pb210_red']_vars

\* a step in which a polonium-218 atom arrives while another one survives
C2_Witness == Po218_gen > 0 /\ Po218_red > 0 /\ Po218 = Po218_gen + Po218_red

\* C3: under a non-negative concentration and either source flag, the six
\* populations, the survivor and decay counts of the last step and the two
\* cycle accumulators are >= 0 in every state.
C3_NonNegative ==
    /\ \A i \in 1 .. 6 : chain[i] >= 0
    /\ \A i \in 1 .. 11 : locals[i] >= 0
    /\ po218_cycle >= 0
    /\ po214_cycle >= 0

\* atoms have decayed down the chain and have been counted
C3_Witness == iter >= 2 /\ Po218_gen > 0 /\ Pb214 > 0 /\ po218_cycle > 0 /\ ~DLess(Rn222_CONC, Zero)

\* C4: a step that does not end a cycle adds to the two accumulators the
\* number of Po218 atoms and the number of Po214 atoms that decayed in the
\* step (each population before the step less its survivors).
C4_AccumulatesProgenyDecays ==
    [][(iter' = iter + 1 /\ ~AtBoundary(time', cycle_time)) =>
          /\ po218_cycle' = po218_cycle + (Po218 - Po218_red')
          /\ po214_cycle' = po214_cycle + (Po214 - Po214_red')]_vars

\* C5: with the source flag on the radon population is, in every state, the
\* one the run started with; with the flag off every step leaves that step's
\* radon survivors as the population, which is no more than before the step.
C5_SourcePolicy ==
    /\ [](source => Rn222 = RAD7_CONC_TO_N(Rn222_CONC, dconst.Rn222))
    /\ [][(iter' = iter + 1 /\ ~source) => (Rn222' = Rn222_red' /\ Rn222' <= Rn222)]_vars

\* radon has decayed under a continuous source and is still all there
C5_Witness == source /\ iter >= 2 /\ Po218_gen > 0 /\ Rn222 > 0 /\ Rn222_red < Rn222

\* C6: in every cycle record, and in the record lines 120-140 make at a
\* cycle boundary of any accumulator contents up to MaxN, the Auto estimate
\* and the Auto uncertainty are the Sniff pair when the cycle's time is
\* <= 10800 s and the Normal pair when it is > 10800 s.
AutoFollows(r, t) ==
    IF t <= 10800
    THEN r.auto = r.sniff /\ r.auto_err = r.sniff_err
    ELSE r.auto = r.normal /\ r.auto_err = r.normal_err

C6_AutoSwitch ==
    /\ \A r \in Records : AutoFollows(r, 60 * r.mins)
    /\ (iter > 0 /\ AtBoundary(time, cycle_time)) =>
          \A a \in 0 .. MaxN, b \in 0 .. MaxN :
              AutoFollows(CycleRecord(time, a, b, cycle_time), time)

\* the records of the cycles that end at 10800 s and at 10860 s: the first
\* carries the Sniff uncertainty, the second the Normal one
C6_Witness ==
    \E r \in Records, q \in Records :
        /\ r.mins = 180 /\ r.auto_err = r.sniff_err /\ r.auto_err # r.normal_err
        /\ q.mins = 181 /\ q.auto_err = q.normal_err /\ q.auto_err # q.sniff_err

\* C7: whatever a direct call of ProgenyDecay returns, under either method,
\* survivors + decays is the population handed in, and both are >= 0.
C7_DecaySplit ==
    decay_ret # <<>> =>
        /\ decay_ret[1].survivors + decay_ret[1].decays = decay_call[1].Ni
        /\ decay_ret[1].survivors >= 0
        /\ decay_ret[1].decays >= 0

\* a call of the atom method in which some atoms decay and some survive
C7_Witness ==
    /\ decay_ret # <<>>
    /\ decay_call[1].method = "atom"
    /\ decay_ret[1].decays > 0
    /\ decay_ret[1].survivors > 0

\* C8: under either method, every probability that reaches the sampler in a
\* call of ProgenyDecay lies within [0, 1].
C8_SampledWithinUnit ==
    decay_ret # <<>> =>
        \A p \in decay_ret[1].sampled : DLeq(Zero, p) /\ DLeq(p, One)

\* C9: a run of a valid configuration whose duration is shorter than one
\* cycle never raises, never holds a cycle record, and has run all its
\* ceil(simtime / dt) steps when it ends.
C9_EmptyResult ==
    (~DLess(Rn222_CONC, Zero) /\ 0 < simtime /\ simtime < cycle_time) =>
        /\ pc # "failed"
        /\ po_cycle_table = <<>>
        /\ pc = "done" => (iter = RangeLen /\ Len(po_conc_log) = RangeLen)

\* the run of 250 s under a 300 s cycle has ended after its 5 steps, with
\* counts in the accumulator that no record reports
C9_Witness ==
    /\ pc = "done" /\ simtime = 250 /\ cycle_time = 300
    /\ Len(po_conc_log) = 5
    /\ po218_cycle > 0
    /\ po_cycle_table = <<>>

\* C10: under an invalid configuration (cycle length <= 0, duration <= 0 or
\* concentration < 0) no step is executed and nothing is raised from
\* inside the loop.
InvalidConfig == cycle_time <= 0 \/ simtime <= 0 \/ DLess(Rn222_CONC, Zero)

C10_RejectsInvalid == InvalidConfig => (iter = 0 /\ po_conc_log = <<>> /\ pc # "failed")


\* a * 10^d <= b for naturals a, b and an integer d, without forming the power
\* where it outgrows the integers
ScaledLeq(a, b, d) ==
    IF d >= 0
    THEN IF d > 9 THEN a = 0 ELSE a <= b \div Pow10(d)
    ELSE IF d < -9 THEN a = 0 \/ b > 0 ELSE (a + Pow10(-d) - 1) \div Pow10(-d) <= b

\* n * x <= y, exactly, for a natural n and non-negative decimal floats x, y
TimesLeq(n, x, y) == ScaledLeq(n * x[1], y[1], x[2] - y[2])

\* N is the greatest integer N >= 0 with N * lambda <= 1e-3 * C
IsFloorOfAtoms(N, C, lambda) ==
    /\ N >= 0
    /\ TimesLeq(N, lambda, DMul(DNorm(1, -3), C))
    /\ ~TimesLeq(N + 1, lambda, DMul(DNorm(1, -3), C))

\* C11: for a concentration C >= 0 and a decay constant lambda > 0 the
\* conversion returns floor(1e-3 * C / lambda), the greatest integer N >= 0
\* with N * lambda <= 1e-3 * C, and the chain starts as (N, 0, 0, 0, 0, 0)
\* with N converted from the configured concentration and the Rn222 constant.
C11_ConversionFloors ==
    /\ conv_ret # <<>> =>
          IsFloorOfAtoms(conv_ret[1], conv_call[1].ConcBq, conv_call[1].decay_const)
    /\ iter = 0 =>
          /\ IsFloorOfAtoms(Rn222, Rn222_CONC, dconst.Rn222)
          /\ chain = <<Rn222, 0, 0, 0, 0, 0>>

C11_Witness ==
    /\ conv_ret # <<>>
    /\ conv_ret[1] > 1
    /\ conv_call[1].decay_const # dconst.Rn222
    /\ Rn222 > 1

\* the count of decays a rate of the step log (decays per second) stands for
RateCount(rate) ==
    CHOOSE n \in 0 .. (MaxPop + MaxN + 1) : DDiv(FromInt(n), FromInt(dt)) = rate

\* the sum of the counts of column col of the step log over rows from .. to
RECURSIVE SumRates(_, _, _)
SumRates(col, from, to) ==
    IF to < from THEN 0 ELSE RateCount(dNsim[to][col]) + SumRates(col, from, to - 1)

\* the counts (column col of the step log) of the cycle_time / dt consecutive
\* steps that end with the step of the k-th boundary, at time k * cycle_time
WindowCount(col, k) ==
    LET steps == cycle_time \div dt
    IN  SumRates(col, k * steps - steps + 2, k * steps + 1)

\* C12: when cycle_time is a positive multiple of dt, the counts behind every
\* cycle record, the first included, are those of exactly cycle_time / dt
\* consecutive steps: each record's counts per minute are the counts of the
\* cycle_time / dt steps up to its boundary divided by the cycle minutes.
C12_WindowIsOneCycle ==
    (cycle_time > 0 /\ cycle_time % dt = 0) =>
        \A k \in DOMAIN po_cycle_table :
            LET cycle_min == DDiv(FromInt(cycle_time), FromInt(60))
            IN  /\ po_cycle_table[k].cpm_po218 = DDiv(FromInt(WindowCount(2, k)), cycle_min)
                /\ po_cycle_table[k].cpm_po214 = DDiv(FromInt(WindowCount(5, k)), cycle_min)

\* C13: a step whose time is a positive multiple of cycle_time appends exactly
\* one record, leaves both accumulators at zero and leaves the six
\* populations as the chain update of the step produced them; every other
\* step (the one at time 0 included) leaves the records as they were and does
\* not reset the accumulators, which grow by the counts of the step.
C13_BoundaryEffect ==
    [][iter' = iter + 1 =>
          /\ Rn222' = (IF source THEN Rn222 ELSE Rn222_red')
          /\ Po218' = Po218_gen' + Po218_red'
          /\ Pb214' = Pb214_gen' + Pb214_red'
          /\ Bi214' = Bi214_gen' + Bi214_red'
          /\ Po214' = Po214_gen' + Po214_red'
          /\ Pb210' = Pb210_gen' + Pb210_red'
          /\ IF time' > 0 /\ time' % cycle_time = 0
             THEN /\ Len(po_cycle_table') = Len(po_cycle_table) + 1
                  /\ SubSeq(po_cycle_table', 1, Len(po_cycle_table)) = po_cycle_table
                  /\ po218_cycle' = 0
                  /\ po214_cycle' = 0
             ELSE /\ po_cycle_table' = po_cycle_table
                  /\ po218_cycle' = po218_cycle + Po218_gen'
                  /\ po214_cycle' = po214_cycle + Po214_gen']_vars

\* the state after a boundary step that closed a cycle with counts and left
\* atoms in the chain
C13_Witness ==
    /\ iter > 0
    /\ time > 0 /\ time % cycle_time = 0
    /\ Len(po_cycle_table) = 2
    /\ po_cycle_table[2].cpm_po218 # Zero
    /\ po218_cycle = 0 /\ po214_cycle = 0
    /\ Po218 + Pb214 + Bi214 > 0

\* C14: the record sequence is append-only and, cycle_time being a positive
\* multiple of dt, its k-th record carries the time k * cycle_time (in whole
\* minutes, as the record stores it), so that the times increase strictly and
\* consecutive records are exactly cycle_time apart.
C14_RecordOrder ==
    /\ [][/\ Len(po_cycle_table') >= Len(po_cycle_table)
          /\ SubSeq(po_cycle_table', 1, Len(po_cycle_table)) = po_cycle_table]_vars
    /\ [](\A k \in DOMAIN po_cycle_table :
             /\ po_cycle_table[k].mins * 60 = k * cycle_time
             /\ k > 1 =>
                  /\ po_cycle_table[k].mins > po_cycle_table[k - 1].mins
                  /\ (po_cycle_table[k].mins - po_cycle_table[k - 1].mins) * 60 = cycle_time)

\* a run past its second boundary, with two records that differ in more than
\* their time
C14_Witness ==
    /\ Len(po_cycle_table) = 2
    /\ iter * dt > 2 * cycle_time
    /\ po_cycle_table[1].cpm_po218 # po_cycle_table[2].cpm_po218

\* C15: with simtime > 0 and dt > 0 the loop ends, after exactly
\* ceil(simtime / dt) steps at the times 0, dt, 2 dt, ..., all below simtime,
\* and every step appends exactly one row to each step log: the rates of the
\* step, and the time with the Po218 and Po214 populations from before the
\* step.
C15_StepCount ==
    /\ <>(pc = "done")
    /\ [](/\ iter <= RangeLen
          /\ pc = "done" => iter = RangeLen
          /\ Len(po_conc_log) = iter /\ Len(dNsim) = iter
          /\ \A i \in 1 .. iter :
                /\ po_conc_log[i][1] = (i - 1) * dt /\ po_conc_log[i][1] < simtime
                /\ dNsim[i][1] = (i - 1) * dt)
    /\ [][iter' = iter + 1 =>
             /\ time' = iter * dt
             /\ po_conc_log' = Append(po_conc_log, <<time', Po218, Po214>>)
             /\ dNsim' = Append(dNsim,
                   <<time', DDiv(FromInt(Po218_gen'), FromInt(dt)),
                     DDiv(FromInt(Pb214_gen'), FromInt(dt)),
                     DDiv(FromInt(Bi214_gen'), FromInt(dt)),
                     DDiv(FromInt(Po214_gen'), FromInt(dt)),
                     DDiv(FromInt(Pb210_gen'), FromInt(dt)), 0>>)]_vars

\* a finished run whose duration is not a multiple of dt, with a polonium
\* population on record
C15_Witness ==
    /\ pc = "done"
    /\ simtime % dt # 0
    /\ iter = simtime \div dt + 1
    /\ \E i \in DOMAIN po_conc_log : po_conc_log[i][2] > 0 /\ po_conc_log[i][3] > 0

\* C16: with dt = 60 the decay probability of Po214 exceeds 1 and is clamped
\* to 1, so every step takes the whole Po214 population (no survivors): after
\* a step Po214 is the Bi214 decays of that step, and the Po214 decays of a
\* step are the Bi214 decays of the step before it.
C16_Po214Handover ==
    /\ [](/\ DLess(One, DecayProb(halflives.Po214, dt))
          /\ Clamp(DecayProb(halflives.Po214, dt)) = One
          /\ iter > 0 => (Po214_red = 0 /\ Po214 = Po214_gen))
    /\ [][iter' = iter + 1 =>
             /\ Po214_red' = 0
             /\ Pb210_gen' = Po214
             /\ Pb210_gen' = Po214_gen
             /\ Po214' = Bi214 - Bi214_red']_vars

\* a step in which the Po214 atom that a Bi214 decay made one step earlier
\* decays
C16_Witness ==
    /\ iter > 1
    /\ Pb210_gen > 0
    /\ Po214_red = 0
    /\ dNsim[iter - 1][5] # Zero
    /\ dNsim[iter][6] = dNsim[iter - 1][5]

\* the atoms in the chain
Atoms == Rn222 + Po218 + Pb214 + Bi214 + Po214 + Pb210

\* the Pb210 atoms that have decayed so far: those that arrived (the last
\* rate column of the step log) less those still there
Pb210Decayed == SumRates(6, 1, Len(dNsim)) - Pb210

\* C17: with the source off, after every step the six populations plus the
\* Pb210 decays so far add up to the initial Rn222 count, and the total of
\* the populations never grows; with the source on, the total grows in each
\* step by exactly the Rn222 decays of the step less its Pb210 decays.
C17_AtomBookkeeping ==
    /\ [](~source => Atoms + Pb210Decayed = RAD7_CONC_TO_N(Rn222_CONC, dconst.Rn222))
    /\ [][iter' = iter + 1 =>
             IF source
             THEN Atoms' = Atoms + (Rn222 - Rn222_red') - (Pb210 - Pb210_red')
             ELSE /\ Atoms' = Atoms - (Pb210 - Pb210_red')
                  /\ Atoms' <= Atoms]_vars

\* a run without source in which the atom has gone all the way down the chain
\* and out of it
C17_Witness ==
    /\ ~source
    /\ iter > 0
    /\ Pb210Decayed > 0
    /\ Atoms < RAD7_CONC_TO_N(Rn222_CONC, dconst.Rn222)

\* the Auto columns of record r come from its Normal columns
FromNormal(r) ==
    /\ r.auto = r.normal
    /\ r.auto_err = r.normal_err
    /\ r.auto_err # r.sniff_err

\* C18: Auto mode goes from Sniff to Normal once and never back: in the record
\* sequence of a run, once a record takes its Auto columns from Normal every
\* later record does.
C18_AutoSwitchesOnce ==
    \A i \in DOMAIN po_cycle_table :
        FromNormal(po_cycle_table[i]) =>
            \A j \in DOMAIN po_cycle_table : j > i => FromNormal(po_cycle_table[j])

\* a run of one-minute cycles well past the threshold: Sniff up to the 180th
\* record, Normal in the ten records after it
C18_Witness ==
    /\ Len(po_cycle_table) >= 190
    /\ ~FromNormal(po_cycle_table[180])
    /\ \A j \in 181 .. 190 : FromNormal(po_cycle_table[j])

\* 4 / (sens * 8.7 * cycle minutes)
ZeroCountWidth(sens) ==
    DDiv(FromInt(4), DMul(DMul(sens, DNorm(87, -1)), DDiv(FromInt(cycle_time), FromInt(60))))

\* C19: in every record (cycle_time > 0) the Sniff, Normal and Auto +/- 2 sigma
\* values are strictly positive; in a record of a cycle without counts each
\* is 4 / (sensitivity * 8.7 * cycle minutes), Auto with the sensitivity of the
\* mode its time selects.
C19_WidthPositive ==
    \A r \in Records :
        /\ DLess(Zero, r.sniff_err)
        /\ DLess(Zero, r.normal_err)
        /\ DLess(Zero, r.auto_err)
        /\ (r.cpm_po218 = Zero /\ r.cpm_po214 = Zero) =>
              /\ r.sniff_err = ZeroCountWidth(sniff_sens)
              /\ r.normal_err = ZeroCountWidth(normal_sens)
              /\ r.auto_err = ZeroCountWidth(IF r.mins * 60 <= 10800 THEN sniff_sens
                                                                    ELSE normal_sens)

\* a record of a cycle without counts after a record of a cycle with counts
C19_Witness ==
    /\ Len(po_cycle_table) = 2
    /\ po_cycle_table[1].cpm_po218 # Zero
    /\ po_cycle_table[2].cpm_po218 = Zero /\ po_cycle_table[2].cpm_po214 = Zero
    /\ DLess(Zero, po_cycle_table[2].auto_err)
====
